---- MODULE Spec2Model ----
(***************************************************************************)
(* State-machine model of src/final.py: the notebook that summarises the   *)
(* 2020 presidential election per state, filters the vaccination series to *)
(* U.S. states, joins the two on an upper-cased state name, and takes the  *)
(* most recent vaccination rows per location.                              *)
(*                                                                         *)
(* A DataFrame is a sequence of rows; a row is a record whose fields are   *)
(* the frame's columns plus `index`, the pandas index label (read_csv      *)
(* gives 0..n-1, boolean filtering keeps the labels).  A float cell is     *)
(* either NaN or the exact rational <<numerator, denominator>>; an object  *)
(* cell is a string or NaNObj.  The vaccination measures that no           *)
(* transformation of the pipeline reads (people_fully_vaccinated, ...)     *)
(* are not carried.  The notebook rebinds the name `elections` to the      *)
(* grouped frame; here `elections` stays the row-level frame of 2020 and   *)
(* `summary` is the grouped frame, so that both can be compared.           *)
(***************************************************************************)
EXTENDS Integers, Sequences, FiniteSets, TLC

VARIABLES elections, summary, vaccinations, colors, recentVax, maxVax, pc, err

vars == <<elections, summary, vaccinations, colors, recentVax, maxVax, pc, err>>

----------------------------------------------------------------------------
(* Bounds of the input space *)

MaxElectionRows == 3
MaxJoinElectionRows == 2
MaxVaxRows == 2
MaxVotes == 2

(* Values of the input columns *)

Years == {2016, 2020}
Parties == {"DEMOCRAT", "REPUBLICAN", "OTHER"}
ElectionStates == {"NEW YORK", "OHIO"}
VaxLocations == {"New York State", "New York", "Ohio", "Guam"}
DateStrings == {"2021-05-14", "2021-05-15"}

(* us.STATES names that occur among the model's locations *)
USStateNames == {"New York", "Ohio"}

NaN == <<>>
NaNObj == "nan"
\* an exception is its type and its args
NoError == [type |-> "none", args |-> <<>>]

----------------------------------------------------------------------------
(* Library functions, by their values on the model's universe *)

\* str.upper()
Upper(s) ==
    CASE s = "New York State" -> "NEW YORK STATE"
      [] s = "New York" -> "NEW YORK"
      [] s = "Ohio" -> "OHIO"
      [] s = "Guam" -> "GUAM"
      [] OTHER -> s

\* pd.to_datetime on an ISO date string: days since 1970-01-01
to_datetime(s) ==
    CASE s = "2021-05-14" -> 18761
      [] s = "2021-05-15" -> 18762

\* party + "_percent"
PercentColumn(p) ==
    CASE p = "DEMOCRAT" -> "DEMOCRAT_percent"
      [] p = "REPUBLICAN" -> "REPUBLICAN_percent"
      [] p = "OTHER" -> "OTHER_percent"

\* sort order of the group keys (groupby sorts its keys)
StateOrder == <<"NEW YORK", "OHIO">>

\* candidatevotes / totalvotes * 100, as an exact rational
Percent(votes, total) == <<votes * 100, total>>

\* order on non-NaN float cells
FloatLeq(a, b) == a[1] * b[2] <= b[1] * a[2]
FloatEq(a, b) == a[1] * b[2] = b[1] * a[2]

----------------------------------------------------------------------------
(* Generic frame helpers *)

Range(f) == {f[i] : i \in DOMAIN f}

SetMax(S) == CHOOSE m \in S : \A x \in S : x <= m

SetMin(S) == CHOOSE m \in S : \A x \in S : m <= x

Columns(frame) == IF Len(frame) = 0 THEN {} ELSE DOMAIN frame[1]

\* frame[frame[col] == value]
WhereEq(frame, col, value) == SelectSeq(frame, LAMBDA r : r[col] = value)

\* restriction of a row to a set of fields
Project(r, fields) == [c \in fields |-> r[c]]

----------------------------------------------------------------------------
(* Inputs *)

SeqsUpTo(S, n) == UNION {[1..k -> S] : k \in 0..n}

\* the rows of 1976-2020-president.csv: totalvotes is the state's total of
\* the year, the sum of the candidatevotes of its rows
ElectionCells ==
    [year : Years, state : ElectionStates,
     candidatevotes : 1..MaxVotes, party_simplified : Parties]

RECURSIVE SumVotes(_, _, _, _)
SumVotes(cells, year, state, n) ==
    IF n = 0 THEN 0
    ELSE SumVotes(cells, year, state, n - 1)
         + (IF cells[n].year = year /\ cells[n].state = state
            THEN cells[n].candidatevotes ELSE 0)

read_csv_elections(cells) ==
    [i \in 1..Len(cells) |->
        [index |-> i - 1,
         year |-> cells[i].year,
         state |-> cells[i].state,
         candidatevotes |-> cells[i].candidatevotes,
         totalvotes |-> SumVotes(cells, cells[i].year, cells[i].state, Len(cells)),
         party_simplified |-> cells[i].party_simplified]]

VaxCells == [location : VaxLocations, date : DateStrings]

read_csv_vaccinations(cells) ==
    [i \in 1..Len(cells) |->
        [index |-> i - 1, location |-> cells[i].location, date |-> cells[i].date]]

----------------------------------------------------------------------------
(* 3.1.1  elections = elections[elections["year"] == 2020] *)

SelectYear ==
    /\ pc = "select_year"
    /\ elections' = WhereEq(elections, "year", 2020)
    /\ pc' = "select_columns"
    /\ UNCHANGED <<summary, vaccinations, colors, recentVax, maxVax, err>>

(* 3.2  elections[["state", "candidatevotes", "totalvotes", "party_simplified"]] *)

ElectionColumns == {"index", "state", "candidatevotes", "totalvotes", "party_simplified"}

SelectColumns ==
    /\ pc = "select_columns"
    /\ elections' = [i \in 1..Len(elections) |-> Project(elections[i], ElectionColumns)]
    /\ pc' = "majority_party"
    /\ UNCHANGED <<summary, vaccinations, colors, recentVax, maxVax, err>>

\* variant: transform(min)
GroupMinVotes(frame, state) ==
    SetMin({r.candidatevotes : r \in {x \in Range(frame) : x.state = state}})

(* groupby(["state"])["candidatevotes"].transform(max) *)
GroupMaxVotes(frame, state) ==
    SetMax({r.candidatevotes : r \in {x \in Range(frame) : x.state = state}})

\* idx: the rows whose candidatevotes is the maximum of their state
idx(frame) ==
    [i \in 1..Len(frame) |->
        frame[i].candidatevotes = GroupMaxVotes(frame, frame[i].state)]

\* majority = elections[idx][["state", "party_simplified"]].rename(... "p")
majority(frame) ==
    LET sel == {i \in 1..Len(frame) : idx(frame)[i]}
    IN  {[index |-> frame[i].index, state |-> frame[i].state,
          p |-> frame[i].party_simplified] : i \in sel}

\* elections["majority_party"] = majority["p"]: aligned on the index label,
\* NaN where majority has no row with that label
AssignMajorityParty(frame) ==
    LET maj == majority(frame)
        cell(r) == IF \E m \in maj : m.index = r.index
                   THEN (CHOOSE m \in maj : m.index = r.index).p
                   ELSE NaNObj
    IN  [i \in 1..Len(frame) |-> frame[i] @@ ("majority_party" :> cell(frame[i]))]

MajorityParty ==
    /\ pc = "majority_party"
    /\ elections' = AssignMajorityParty(elections)
    /\ pc' = "party_percent"
    /\ UNCHANGED <<summary, vaccinations, colors, recentVax, maxVax, err>>

(* for i, row in elections.iterrows():                                     *)
(*     elections.at[i, row["party_simplified"] + "_percent"] = ...         *)
\* a column exists for every party that has a row; a row's cell is set only
\* in the column of its own party
PercentColumnsOf(frame) == {PercentColumn(r.party_simplified) : r \in Range(frame)}

AssignPercent(frame) ==
    LET cols == PercentColumnsOf(frame)
        cells(r) == [c \in cols |->
                        IF c = PercentColumn(r.party_simplified)
                        THEN Percent(r.candidatevotes, r.totalvotes)
                        ELSE NaN]
    IN  [i \in 1..Len(frame) |-> frame[i] @@ cells(frame[i])]

PartyPercent ==
    /\ pc = "party_percent"
    /\ elections' = AssignPercent(elections)
    /\ pc' = "group_first"
    /\ UNCHANGED <<summary, vaccinations, colors, recentVax, maxVax, err>>

(* elections.groupby("state").first().drop(columns=[...]).reset_index()    *)
(*          .rename(columns={"state": "location"})                         *)
FloatColumns == {PercentColumn(p) : p \in Parties}
ObjectColumns == {"majority_party", "party", "color"}

NullOf(col) == IF col \in FloatColumns THEN NaN ELSE NaNObj

IsNullCell(col, v) ==
    IF col \in FloatColumns THEN v = NaN
    ELSE IF col \in ObjectColumns THEN v = NaNObj
    ELSE FALSE

\* variant: GroupBy.last()
last(group, col) ==
    LET nonnull == {i \in 1..Len(group) : ~IsNullCell(col, group[i][col])}
    IN  IF nonnull = {} THEN NullOf(col) ELSE group[SetMax(nonnull)][col]

\* GroupBy.first(): the first non-null cell of the column in the group, in
\* row order; null when the group has none
first(group, col) ==
    LET nonnull == {i \in 1..Len(group) : ~IsNullCell(col, group[i][col])}
    IN  IF nonnull = {} THEN NullOf(col) ELSE group[SetMin(nonnull)][col]

\* variant: one key per row, the groups never merged
RowKeys(frame) == [i \in 1..Len(frame) |-> frame[i].state]

\* the group keys present in the frame, in sorted order
GroupKeys(frame) ==
    SelectSeq(StateOrder, LAMBDA s : \E r \in Range(frame) : r.state = s)

DroppedColumns == {"index", "state", "party_simplified", "candidatevotes"}

GroupFirst(frame) ==
    LET keys == GroupKeys(frame)
        cols == Columns(frame) \ DroppedColumns
    IN  [k \in 1..Len(keys) |->
            [index |-> k - 1, location |-> keys[k]]
            @@ [c \in cols |-> first(WhereEq(frame, "state", keys[k]), c)]]

Summarize ==
    /\ pc = "group_first"
    /\ summary' = GroupFirst(elections)
    /\ pc' = "filter_states"
    /\ UNCHANGED <<elections, vaccinations, colors, recentVax, maxVax, err>>

----------------------------------------------------------------------------
(* states = [state.name for state in us.STATES]; states.append(...) *)
states == USStateNames \cup {"New York State"}

\* vaccinations[vaccinations["location"].isin(states)], then
\* vaccinations["date"] = pd.to_datetime(vaccinations["date"])
FilterStatesFrame(frame) ==
    LET kept == SelectSeq(frame, LAMBDA r : r.location \in states)
    IN  [i \in 1..Len(kept) |-> [kept[i] EXCEPT !.date = to_datetime(@)]]

FilterStates ==
    /\ pc = "filter_states"
    /\ vaccinations' = FilterStatesFrame(vaccinations)
    /\ pc' = "join"
    /\ UNCHANGED <<elections, summary, colors, recentVax, maxVax, err>>

----------------------------------------------------------------------------
(* The join loop, one iteration per step.  The rows are visited in frame   *)
(* order; a row that has been visited carries the column "color".          *)

Visited(r) == "color" \in DOMAIN r /\ r.color # NaNObj

\* position of the row the loop visits next, 0 when the loop is over
NextRow(frame) ==
    LET todo == {i \in 1..Len(frame) : ~Visited(frame[i])}
    IN  IF todo = {} THEN 0 ELSE SetMin(todo)

\* variant: the alias is not resolved
UpperOnly(location) == Upper(location)

\* location = row["location"].upper(); "NEW YORK STATE" becomes "NEW YORK"
LookupKey(location) ==
    LET up == Upper(location)
    IN  IF up = "NEW YORK STATE" THEN "NEW YORK" ELSE up

\* stateElection = elections[elections["location"] == location]
stateElection(location) == WhereEq(summary, "location", LookupKey(location))

\* variant: the two branches swapped
ColorSwapped(party) ==
    IF party = "REPUBLICAN" THEN "blue"
    ELSE IF party = "DEMOCRAT" THEN "red"
    ELSE "green"

ColorOf(party) ==
    IF party = "REPUBLICAN" THEN "red"
    ELSE IF party = "DEMOCRAT" THEN "blue"
    ELSE "green"

\* vaccinations.at[i, col] = value: the first assignment to a new column
\* creates it, NaN in every other row
SetAt(frame, i, col, value) ==
    [k \in 1..Len(frame) |->
        IF k = i
        THEN (col :> value) @@ frame[k]
        ELSE IF col \in DOMAIN frame[k] THEN frame[k]
             ELSE frame[k] @@ (col :> NullOf(col))]

\* variant: the first summary row, whatever the location
JoinFirstSummaryRow(frame, i) ==
    LET party == summary[1].majority_party
        f1 == SetAt(frame, i, "DEMOCRAT_percent", summary[1].DEMOCRAT_percent)
        f2 == SetAt(f1, i, "party", party)
    IN  SetAt(f2, i, "color", ColorOf(party))

JoinRow(frame, i) ==
    LET se == stateElection(frame[i].location)
        party == se[1].majority_party
        f1 == SetAt(frame, i, "DEMOCRAT_percent", se[1].DEMOCRAT_percent)
        f2 == SetAt(f1, i, "party", party)
    IN  SetAt(f2, i, "color", ColorOf(party))

JoinStep ==
    /\ pc = "join"
    /\ NextRow(vaccinations) # 0
    /\ LET i == NextRow(vaccinations)
           se == stateElection(vaccinations[i].location)
       IN  /\ Len(se) > 0
           /\ "DEMOCRAT_percent" \in Columns(summary)
           /\ vaccinations' = JoinRow(vaccinations, i)
    /\ UNCHANGED <<elections, summary, colors, recentVax, maxVax, pc, err>>

\* stateElection["majority_party"].iloc[0] on an empty selection
JoinIndexError ==
    /\ pc = "join"
    /\ NextRow(vaccinations) # 0
    /\ LET i == NextRow(vaccinations)
       IN  /\ Len(stateElection(vaccinations[i].location)) = 0
           /\ err' = [type |-> "IndexError",
                      args |-> <<"single positional indexer is out-of-bounds">>]
    /\ pc' = "error"
    /\ UNCHANGED <<elections, summary, vaccinations, colors, recentVax, maxVax>>

\* stateElection["DEMOCRAT_percent"] when no 2020 row has party DEMOCRAT
JoinKeyError ==
    /\ pc = "join"
    /\ NextRow(vaccinations) # 0
    /\ LET i == NextRow(vaccinations)
       IN  /\ Len(stateElection(vaccinations[i].location)) > 0
           /\ "DEMOCRAT_percent" \notin Columns(summary)
           /\ err' = [type |-> "KeyError", args |-> <<"DEMOCRAT_percent">>]
    /\ pc' = "error"
    /\ UNCHANGED <<elections, summary, vaccinations, colors, recentVax, maxVax>>

----------------------------------------------------------------------------
(* colors = vaccinations[["location", "color"]].set_index("location")      *)
(*              .to_dict()["color"]                                        *)
\* a dict keeps the value of the last row of each key
to_dict(frame) ==
    LET keys == {r.location : r \in Range(frame)}
        lastRow(l) == SetMax({i \in 1..Len(frame) : frame[i].location = l})
    IN  [l \in keys |-> frame[lastRow(l)].color]

ColorsDict ==
    /\ pc = "join"
    /\ NextRow(vaccinations) = 0
    /\ "color" \in Columns(vaccinations)
    /\ colors' = to_dict(vaccinations)
    /\ pc' = "recent"
    /\ UNCHANGED <<elections, summary, vaccinations, recentVax, maxVax, err>>

\* the loop body never ran, so no column "color" was created
ColorsKeyError ==
    /\ pc = "join"
    /\ NextRow(vaccinations) = 0
    /\ "color" \notin Columns(vaccinations)
    /\ err' = [type |-> "KeyError", args |-> <<"['color'] not in index">>]
    /\ pc' = "error"
    /\ UNCHANGED <<elections, summary, vaccinations, colors, recentVax, maxVax>>

----------------------------------------------------------------------------
(* idx = vaccinations.groupby("location")["date"].transform(max)           *)
(*           == vaccinations["date"];  recentVax = vaccinations[idx]       *)
GroupMaxDate(frame, location) ==
    SetMax({r.date : r \in {x \in Range(frame) : x.location = location}})

\* variant: one row per location, the first that has the maximum date
RecentOnePerLocation(frame) ==
    LET top == {i \in 1..Len(frame) :
                   frame[i].date = GroupMaxDate(frame, frame[i].location)}
        firstTop == {i \in top :
                        \A j \in top :
                            frame[j].location = frame[i].location => i <= j}
        picked(r) == \E i \in firstTop : frame[i] = r
    IN  SelectSeq(frame, picked)

Recent(frame) ==
    SelectSeq(frame, LAMBDA r : r.date = GroupMaxDate(frame, r.location))

RecentVax ==
    /\ pc = "recent"
    /\ recentVax' = Recent(vaccinations)
    /\ pc' = "max_vax"
    /\ UNCHANGED <<elections, summary, vaccinations, colors, maxVax, err>>

(* maxVax = vaccinations.groupby("location").agg(max) *)
\* max of a float column skips NaN and is NaN when every cell is NaN
FloatMax(S) ==
    LET vals == S \ {NaN}
    IN  IF vals = {} THEN NaN
        ELSE CHOOSE m \in vals : \A x \in vals : FloatLeq(x, m)

AggMax(frame) ==
    LET keys == {r.location : r \in Range(frame)}
        group(l) == {r \in Range(frame) : r.location = l}
    IN  [l \in keys |->
            [date |-> SetMax({r.date : r \in group(l)}),
             DEMOCRAT_percent |-> FloatMax({r.DEMOCRAT_percent : r \in group(l)})]]

MaxVax ==
    /\ pc = "max_vax"
    /\ maxVax' = AggMax(vaccinations)
    /\ pc' = "done"
    /\ UNCHANGED <<elections, summary, vaccinations, colors, recentVax, err>>

----------------------------------------------------------------------------
(* Specifications *)

InitFrames(electionCells, vaxCells) ==
    /\ elections = read_csv_elections(electionCells)
    /\ vaccinations = read_csv_vaccinations(vaxCells)
    /\ summary = <<>>
    /\ colors = <<>>
    /\ recentVax = <<>>
    /\ maxVax = <<>>
    /\ pc = "select_year"
    /\ err = NoError

\* the whole notebook
Init ==
    \E e \in SeqsUpTo(ElectionCells, MaxJoinElectionRows) :
        \E v \in SeqsUpTo(VaxCells, MaxVaxRows) : InitFrames(e, v)

Next ==
    \/ SelectYear
    \/ SelectColumns
    \/ MajorityParty
    \/ PartyPercent
    \/ Summarize
    \/ FilterStates
    \/ JoinStep
    \/ JoinIndexError
    \/ JoinKeyError
    \/ ColorsDict
    \/ ColorsKeyError
    \/ RecentVax
    \/ MaxVax

Spec == Init /\ [][Next]_vars

\* the election summarizer alone, on larger election tables
InitElection ==
    \E e \in SeqsUpTo(ElectionCells, MaxElectionRows) : InitFrames(e, <<>>)

NextElection ==
    \/ SelectYear
    \/ SelectColumns
    \/ MajorityParty
    \/ PartyPercent
    \/ Summarize

SpecElection == InitElection /\ [][NextElection]_vars

----------------------------------------------------------------------------
(* Properties of the election summarizer *)

Summarized ==
    pc \notin {"select_year", "select_columns", "majority_party",
               "party_percent", "group_first"}

\* positions of the 2020 rows of a state, and of its rows in the summary
StateRows(s) == {i \in 1..Len(elections) : elections[i].state = s}
SummaryRows(s) == {k \in 1..Len(summary) : summary[k].location = s}

\* positions of the rows of a state that no row of the state outvotes
TopRows(s) ==
    {i \in StateRows(s) :
        \A j \in StateRows(s) :
            elections[j].candidatevotes <= elections[i].candidatevotes}

\* C2: for every state of the 2020 rows, the summary has a row for the state
\* and its majority_party is the party of a row that holds the state's
\* maximum candidate_votes.
C2_MajorityPartyHasMaxVotes ==
    Summarized =>
        \A s \in ElectionStates :
            StateRows(s) # {} =>
                /\ SummaryRows(s) # {}
                /\ \A k \in SummaryRows(s) :
                      \E i \in TopRows(s) :
                          elections[i].party_simplified = summary[k].majority_party

\* a state of three rows whose winner is DEMOCRAT and is not the first row
C2_Witness ==
    /\ Summarized
    /\ \E s \in ElectionStates :
          /\ Cardinality(StateRows(s)) = 3
          /\ \E i, j \in StateRows(s) :
                /\ i < j
                /\ elections[i].party_simplified = "REPUBLICAN"
                /\ elections[j].party_simplified = "DEMOCRAT"
                /\ TopRows(s) = {j}
          /\ \A k \in SummaryRows(s) : summary[k].majority_party = "DEMOCRAT"

\* C9: when several rows of a state tie for the maximum, the summarizer
\* raises nothing and majority_party is the party of the tying row that comes
\* first in row order.
C9_TieGoesToFirstRow ==
    Summarized =>
        /\ pc = "filter_states" => err = NoError
        /\ \A s \in ElectionStates :
              \A k \in SummaryRows(s) :
                  /\ TopRows(s) # {}
                  /\ summary[k].majority_party
                        = elections[SetMin(TopRows(s))].party_simplified

\* a tie between two parties whose first row is not the state's first row;
\* with the tying rows swapped the other party would be reported
C9_Witness ==
    /\ pc = "filter_states"
    /\ \E s \in ElectionStates :
          \E i, j \in TopRows(s) :
              /\ i < j
              /\ i # SetMin(StateRows(s))
              /\ elections[i].party_simplified = "REPUBLICAN"
              /\ elections[j].party_simplified = "DEMOCRAT"
              /\ \A k \in SummaryRows(s) : summary[k].majority_party = "REPUBLICAN"

\* total candidate_votes of a set of row positions
RECURSIVE VotesOf(_)
VotesOf(rows) ==
    IF rows = {} THEN 0
    ELSE LET i == CHOOSE x \in rows : TRUE
         IN  elections[i].candidatevotes + VotesOf(rows \ {i})

PartyRows(s, p) == {i \in StateRows(s) : elections[i].party_simplified = p}

\* the share of a summary row in a party's column, 0 when the column is
\* missing or the cell is NaN
ShareOrZero(row, p) ==
    IF PercentColumn(p) \in DOMAIN row /\ row[PercentColumn(p)] # NaN
    THEN row[PercentColumn(p)]
    ELSE <<0, 1>>

\* C3: for every state, the summary's DEMOCRAT_percent is a number in
\* [0,100] equal to the DEMOCRAT candidate_votes of the state divided by its
\* total_votes times 100, also when the state has no DEMOCRAT row.
C3_DemocratPercent ==
    Summarized =>
        \A s \in ElectionStates :
            \A k \in SummaryRows(s) :
                /\ "DEMOCRAT_percent" \in DOMAIN summary[k]
                /\ summary[k].DEMOCRAT_percent # NaN
                /\ FloatEq(summary[k].DEMOCRAT_percent,
                           <<VotesOf(PartyRows(s, "DEMOCRAT")) * 100,
                             summary[k].totalvotes>>)
                /\ FloatLeq(<<0, 1>>, summary[k].DEMOCRAT_percent)
                /\ FloatLeq(summary[k].DEMOCRAT_percent, <<100, 1>>)

\* C4: for every state whose candidate_votes add up to total_votes, the
\* DEMOCRAT, REPUBLICAN and OTHER shares of the summary add up to 100 within
\* one point of rounding and never to more than 100.
C4_SharesSumTo100 ==
    Summarized =>
        \A s \in ElectionStates :
            \A k \in SummaryRows(s) :
                VotesOf(StateRows(s)) = summary[k].totalvotes =>
                    LET d == ShareOrZero(summary[k], "DEMOCRAT")
                        r == ShareOrZero(summary[k], "REPUBLICAN")
                        o == ShareOrZero(summary[k], "OTHER")
                        num == d[1] * r[2] * o[2] + r[1] * d[2] * o[2]
                               + o[1] * d[2] * r[2]
                        den == d[2] * r[2] * o[2]
                    IN  /\ num <= 100 * den
                        /\ 99 * den <= num

----------------------------------------------------------------------------
(* Properties of the filter, the join and the snapshot *)

\* the election key of a state location: upper case, alias resolved
ElectionKey(location) ==
    CASE location = "New York State" -> "NEW YORK"
      [] location = "New York" -> "NEW YORK"
      [] location = "Ohio" -> "OHIO"
      [] OTHER -> "?"

Matches(r) == {k \in 1..Len(summary) : summary[k].location = ElectionKey(r.location)}

Enriched(r) == "party" \in DOMAIN r /\ r.party # NaNObj

Filtered == pc \in {"join", "recent", "max_vax", "done", "error"}
JoinOver == pc \in {"recent", "max_vax", "done", "error"}
JoinComplete == pc \in {"recent", "max_vax", "done"}

\* C1 as stated: once the summarizer, the filter and the join have run,
\* every retained vaccination row matches exactly one summary row.
C1_ExactlyOneMatch ==
    JoinOver => \A r \in Range(vaccinations) : Cardinality(Matches(r)) = 1

\* C1 as amended: a retained row never matches more than one summary row; it
\* matches exactly one if the join has enriched it, hence every row does when
\* the join completes; the join ends with IndexError only at a row that
\* matches none.
C1_AtMostOneMatch ==
    Filtered =>
        /\ \A r \in Range(vaccinations) :
              /\ Cardinality(Matches(r)) <= 1
              /\ (Enriched(r) \/ JoinComplete) => Cardinality(Matches(r)) = 1
        /\ err.type = "IndexError" =>
              \E r \in Range(vaccinations) : ~Enriched(r) /\ Matches(r) = {}

\* a completed join over two locations and a summary of two states
C1_Witness ==
    /\ pc = "done"
    /\ Len(summary) = 2
    /\ \E r, q \in Range(vaccinations) :
          /\ r.location = "New York State" /\ q.location = "Ohio"
          /\ Cardinality(Matches(r)) = 1 /\ Cardinality(Matches(q)) = 1
          /\ Matches(r) # Matches(q)

\* C6: a row that has a color has "blue" exactly when its party is DEMOCRAT,
\* "red" exactly when it is REPUBLICAN and "green" exactly in the other
\* cases; no other color is assigned.
C6_ColorOfParty ==
    \A r \in Range(vaccinations) :
        ("color" \in DOMAIN r /\ r.color # NaNObj) =>
            /\ r.color \in {"red", "blue", "green"}
            /\ r.color = "blue" <=> r.party = "DEMOCRAT"
            /\ r.color = "red" <=> r.party = "REPUBLICAN"
            /\ r.color = "green" <=> r.party \notin {"DEMOCRAT", "REPUBLICAN"}

\* rows of all three colors, the green one for a state won by OTHER
C6_Witness ==
    /\ pc = "done"
    /\ \E r, q \in Range(vaccinations) :
          /\ r.party = "OTHER" /\ r.color = "green"
          /\ q.party = "DEMOCRAT" /\ q.color = "blue"

\* position of the row the join loop stopped at
FirstNotEnriched ==
    SetMin({i \in 1..Len(vaccinations) : ~Enriched(vaccinations[i])})

\* C7: a "New York State" row passes the location filter and is joined to
\* the summary row "NEW YORK"; every other retained row is joined to the row
\* of its upper-cased name; the lookup fails only when that row is missing.
C7_NewYorkStateAlias ==
    [][/\ pc = "filter_states" =>
             \A i \in 1..Len(vaccinations) :
                 vaccinations[i].location \in {"New York State", "New York", "Ohio"} =>
                     \E j \in 1..Len(vaccinations') :
                         /\ vaccinations'[j].index = vaccinations[i].index
                         /\ vaccinations'[j].location = vaccinations[i].location
       /\ \A r \in Range(vaccinations') :
             Enriched(r) =>
                 \E k \in 1..Len(summary') :
                     /\ summary'[k].location = ElectionKey(r.location)
                     /\ r.party = summary'[k].majority_party
                     /\ r.DEMOCRAT_percent = summary'[k].DEMOCRAT_percent
       /\ (pc = "join" /\ err'.type = "IndexError") =>
             \A k \in 1..Len(summary) :
                 summary[k].location
                     # ElectionKey(vaccinations[FirstNotEnriched].location)
      ]_vars

\* a "New York State" row carrying New York's result next to an Ohio row
\* carrying Ohio's
C7_Witness ==
    /\ pc = "done"
    /\ \E k, m \in 1..Len(summary) :
          /\ summary[k].location = "NEW YORK"
          /\ summary[k].majority_party = "DEMOCRAT"
          /\ summary[m].location = "OHIO"
          /\ summary[m].majority_party = "REPUBLICAN"
          /\ \E r, q \in Range(vaccinations) :
                /\ r.location = "New York State"
                /\ r.party = "DEMOCRAT"
                /\ r.DEMOCRAT_percent = summary[k].DEMOCRAT_percent
                /\ r.DEMOCRAT_percent # NaN
                /\ q.location = "Ohio"
                /\ q.party = "REPUBLICAN"

\* C8: when a retained location has no summary row, the join fails with an
\* error that names the location, and it neither completes nor leaves the
\* row enriched with nulls.
C8_FailureNamesLocation ==
    /\ (pc = "error" /\ err.type = "IndexError") =>
          LET location == vaccinations[FirstNotEnriched].location
          IN  \E a \in Range(err.args) : a \in {location, Upper(location)}
    /\ Filtered =>
          \A r \in Range(vaccinations) :
              Matches(r) = {} => ~JoinComplete /\ ~Enriched(r)

\* C5: the snapshot holds exactly the rows whose date is the maximum of their
\* location, each once: none older, every row that ties, and so at least one
\* row of every location.
C5_RecentIsMaxDateRows ==
    pc \in {"max_vax", "done"} =>
        LET isTop(r) == \A q \in Range(vaccinations) :
                            q.location = r.location => q.date <= r.date
        IN  /\ \A r \in Range(recentVax) : r \in Range(vaccinations) /\ isTop(r)
            /\ \A r \in Range(vaccinations) : isTop(r) => r \in Range(recentVax)
            /\ \A i, j \in 1..Len(recentVax) :
                  recentVax[i].index = recentVax[j].index => i = j
            /\ \A r \in Range(vaccinations) :
                  \E q \in Range(recentVax) : q.location = r.location

\* a location whose older row is left out of the snapshot
C5_Witness ==
    /\ pc = "done"
    /\ Len(recentVax) = 1
    /\ \E r \in Range(vaccinations) :
          /\ r \notin Range(recentVax)
          /\ r.location = recentVax[1].location
          /\ r.date < recentVax[1].date

\* the rows of a frame without the joined columns
Raw(frame) ==
    [i \in 1..Len(frame) |->
        [index |-> frame[i].index, location |-> frame[i].location,
         date |-> frame[i].date]]

\* C10: the join neither adds nor drops a row; once it has completed, the
\* rows of a location agree on party, DEMOCRAT_percent and color, the colors
\* dictionary maps every location to the color of each of its rows, and the
\* per-location maximum of DEMOCRAT_percent is the state's summary value.
C10_JoinKeepsRowsAndAgrees ==
    [][/\ pc = "join" => Raw(vaccinations') = Raw(vaccinations)
       /\ pc' \in {"recent", "max_vax", "done"} =>
             /\ \A r, q \in Range(vaccinations') :
                   r.location = q.location =>
                       /\ r.party = q.party
                       /\ r.color = q.color
                       /\ r.DEMOCRAT_percent = q.DEMOCRAT_percent
             /\ DOMAIN colors' = {r.location : r \in Range(vaccinations')}
             /\ \A r \in Range(vaccinations') : colors'[r.location] = r.color
       /\ pc' = "done" =>
             /\ DOMAIN maxVax' = {r.location : r \in Range(vaccinations')}
             /\ \A r \in Range(vaccinations') :
                   \E k \in 1..Len(summary') :
                       /\ summary'[k].location = ElectionKey(r.location)
                       /\ maxVax'[r.location].DEMOCRAT_percent
                             = summary'[k].DEMOCRAT_percent
      ]_vars

\* two rows of one location, joined to a state that has a DEMOCRAT share
C10_Witness ==
    /\ pc = "done"
    /\ Len(vaccinations) = 2
    /\ vaccinations[1].location = "New York State"
    /\ vaccinations[2].location = "New York State"
    /\ vaccinations[1].date # vaccinations[2].date
    /\ colors["New York State"] = "red"
    /\ maxVax["New York State"].DEMOCRAT_percent # NaN

====
